---------------------------- MODULE Spec2Model ----------------------------
(***************************************************************************)
(* A model of pyutils: the Bloom filter of src/pyutils/bloom_filter.py,    *)
(* the heap of src/pyutils/heap.py, limited_gather of                      *)
(* src/pyutils/asyncio/__init__.py and the Grid of src/pyutils/grid.py.    *)
(*                                                                         *)
(* Floats.  A probability p is held as the integer m with p = m / 2^29     *)
(* (ProbabilityDenominator); every such p is a double, so the model's      *)
(* probabilities are doubles the program can be given.  struct's 'f'       *)
(* (IEEE-754 binary32) is modelled bit for bit on that grid.  math.log is  *)
(* a library function: its values are tabulated for the probabilities the  *)
(* model uses (neg_log2_milli), in thousandths rounded up.                 *)
(*                                                                         *)
(* Hashing.  hashlib's digests are library code.  A value is an integer    *)
(* standing for a byte string, and digest(...) is a fixed function of the  *)
(* hash function and the salted value, whose 'H' words are base-           *)
(* DigestRadix digits.                                                     *)
(*                                                                         *)
(* Event loop.  limited_gather runs on asyncio's loop: one thread, which   *)
(* runs a coroutine from one await to the next and calls the done          *)
(* callbacks of finished tasks.  The model takes limited_gather line by    *)
(* line and lets a task finish and a done callback run between any two of  *)
(* its steps and in any order, which includes every order the loop         *)
(* produces.  An iteration coroutine is its task: started, then finished.  *)
(***************************************************************************)
EXTENDS Integers, Sequences, FiniteSets, TLC

\* ------------------------------------------------------------- bounds
MaxCapacity == 2
MaxValue == 1
MaxBatch == 2
MaxCut == 2
MaxSlices == 10
MaxElement == 2
MaxHeapLen == 5
MaxIterable == 3
MaxConcurrent == 2
MaxGridSize == 2

\* Python's None, where a string or nothing is held
None == "None"

Capacities == 0..MaxCapacity
Values == 0..MaxValue

\* ------------------------------------------------------------- helpers
pow2(n) == 2 ^ n

RECURSIVE bit_length(_)
bit_length(n) == IF n <= 0 THEN 0 ELSE 1 + bit_length(n \div 2)

\* math.ceil(a / b) for integers a and b > 0
ceil_div(a, b) == -((-a) \div b)

min(a, b) == IF a <= b THEN a ELSE b

\* The one member of a set {e(v) : v \in {x}}: e with x evaluated once and
\* named v (a local variable of the code).
Bind(S) == CHOOSE r \in S : TRUE

\* ------------------------------------------------------------- floats
\* p = m / ProbabilityDenominator
ProbabilityBits == 29
ProbabilityDenominator == pow2(ProbabilityBits)

ProbHalf == pow2(28)
ProbBelowHalf == pow2(28) - 1
ProbQuarter == pow2(27)
ProbEighth == pow2(26)

\* The false positive probabilities a caller passes.
Probabilities == {ProbHalf, ProbBelowHalf, ProbQuarter}

\* Values of false_positive_probability outside (0, 1): 0.0, -0.5, 1.0, 2.0
ProbZero == 0
ProbNegative == -pow2(28)
ProbOne == pow2(29)
ProbTwo == pow2(30)
OutsideProbabilities == {ProbZero, ProbNegative, ProbOne, ProbTwo}

\* 0.001 and 0.01, to the nearest 2^-29
ProbThousandth == 536871
ProbHundredth == 5368709

\* The double m / 2^29 converted to binary32 and back (struct 'f'): rounded to
\* 24 significant bits, ties to even.
float32(m) ==
    LET L == bit_length(m)
    IN IF L <= 24 THEN m
       ELSE LET unit == pow2(L - 24)
                q == m \div unit
                r == m % unit
                up == (2 * r > unit) \/ (2 * r = unit /\ q % 2 = 1)
            IN (IF up THEN q + 1 ELSE q) * unit

\* -math.log(p, 2) in thousandths, rounded up: ceil(1000 * -log2(m / 2^29)).
neg_log2_milli(m) ==
    CASE m = pow2(30) -> -1000
      [] m = pow2(29) -> 0
      [] m = pow2(29) - 1 -> 1
      [] m = pow2(28) -> 1000
      [] m = pow2(28) - 1 -> 1001
      [] m = pow2(27) -> 2000
      [] m = pow2(27) - 1 -> 2001
      [] m = pow2(26) -> 3000
      [] m = 5368709 -> 6644
      [] m = 536871 -> 9966

\* math.log(2) in thousandths
Ln2Milli == 693

\* ------------------------------------------------------------- struct
RECURSIVE pack_be(_, _)
\* n as `size` bytes, most significant first
pack_be(n, size) ==
    IF size = 0 THEN << >>
    ELSE Append(pack_be(n \div 256, size - 1), n % 256)

RECURSIVE unpack_be(_)
unpack_be(bytes) ==
    IF bytes = << >> THEN 0
    ELSE 256 * unpack_be(SubSeq(bytes, 1, Len(bytes) - 1)) + bytes[Len(bytes)]

reversed(s) == [i \in 1..Len(s) |-> s[Len(s) + 1 - i]]

\* s[a:b] of Python, 0-based, clipped to the sequence
slice(s, a, b) == SubSeq(s, a + 1, min(b, Len(s)))

StructError == "struct.error"

\* struct.calcsize
struct_calcsize(fmt) ==
    CASE fmt = ">Q" -> 8
      [] fmt = "Q" -> 8
      [] fmt = "f" -> 4
      [] fmt = "I" -> 4
      [] fmt = "H" -> 2

\* struct.pack('>Q', n)
struct_pack_Q(n) == pack_be(n, 8)

\* struct.pack('f', p): the binary32 of p in native (little-endian) byte order
struct_pack_f(m) ==
    LET r == float32(m)
        L == bit_length(r)
        biased == (L - 1 - ProbabilityBits) + 127
        mant == IF L <= 24 THEN r * pow2(24 - L) ELSE r \div pow2(L - 24)
        bits == biased * pow2(23) + (mant - pow2(23))
    IN reversed(pack_be(bits, 4))

\* struct.unpack_from(fmt, buffer, offset)[0]; struct.error when the buffer is
\* too short
struct_unpack_from(fmt, buffer, offset) ==
    LET size == struct_calcsize(fmt)
        raw == slice(buffer, offset, offset + size)
    IN IF Len(buffer) - offset < size THEN [error |-> StructError, value |-> 0]
       ELSE [error |-> None,
             value |->
               CASE fmt = ">Q" -> unpack_be(raw)
                 [] fmt = "f" ->
                      LET bits == unpack_be(reversed(raw))
                          biased == bits \div pow2(23)
                          mant == pow2(23) + (bits % pow2(23))
                          shift == biased - 127 - 23 + ProbabilityBits
                      IN IF shift >= 0 THEN mant * pow2(shift)
                         ELSE mant \div pow2(-shift)
                 [] OTHER -> unpack_be(reversed(raw))]

\* ------------------------------------------------------------- hashlib
\* The hash functions hashlib knows by name.
HashFunctions == {"sha3_256", "md5"}

\* A hash function of the caller's own, which hashlib has not by its name.
UserHashFunctions == {"my_hash"}

\* hash_function().digest_size
digest_size(hash_function) == IF hash_function = "md5" THEN 16 ELSE 32

DigestRadix == 4

\* struct.pack('I', i) + value: the salted input, as a number
salted(salt, value) == 16 * salt + value

\* hash_function(salt_value + value).digest(): the bytes of the digest.  The
\* low byte of 'H' word j is base-DigestRadix digit j of a number mixed from
\* the salted input, differently for each hash function; the high byte is 0.
digest(hash_function, salt, value) ==
    LET x == IF hash_function = "md5" THEN 7 * salted(salt, value) + 2
             ELSE IF hash_function = "my_hash" THEN 3 * salted(salt, value) + 1
             ELSE 5 * salted(salt, value) + 3
    IN [b \in 1..digest_size(hash_function) |->
            IF (b - 1) % 2 = 0
            THEN (x \div (DigestRadix ^ min((b - 1) \div 2, 8))) % DigestRadix
            ELSE 0]

AttributeError == "AttributeError"

\* ------------------------------------------------------------- index stream
\* _BitIndexNumberStruct.__init__: the format code of a bit index number
BitIndexNumberStruct(num_slice_bits) ==
    IF num_slice_bits \div 2 >= pow2(30) THEN "Q"
    ELSE IF num_slice_bits >= pow2(15) THEN "I"
    ELSE "H"

ZeroDivisionError == "ZeroDivisionError"

\* _make_aggregated_hash_function counting its salts with floor in place of
\* ceil
make_aggregated_hash_function_floor(num_slices, num_bits_per_slice, hash_function) ==
    LET bit_index_number_struct == BitIndexNumberStruct(num_bits_per_slice)
        size == struct_calcsize(bit_index_number_struct)
        num_bit_index_numbers_in_hash == digest_size(hash_function) \div size
    IN [num_slices |-> num_slices,
        num_bits_per_slice |-> num_bits_per_slice,
        hash_function |-> hash_function,
        format |-> bit_index_number_struct,
        size |-> size,
        num_bit_index_numbers_in_hash |-> num_bit_index_numbers_in_hash,
        salt_values |-> num_slices \div num_bit_index_numbers_in_hash]

\* The closure _make_aggregated_hash_function builds: what it computes once.
make_aggregated_hash_function(num_slices, num_bits_per_slice, hash_function) ==
    LET bit_index_number_struct == BitIndexNumberStruct(num_bits_per_slice)
        size == struct_calcsize(bit_index_number_struct)
        num_bit_index_numbers_in_hash == digest_size(hash_function) \div size
        num_different_hash_functions ==
            ceil_div(num_slices, num_bit_index_numbers_in_hash)
    IN [num_slices |-> num_slices,
        num_bits_per_slice |-> num_bits_per_slice,
        hash_function |-> hash_function,
        format |-> bit_index_number_struct,
        size |-> size,
        num_bit_index_numbers_in_hash |-> num_bit_index_numbers_in_hash,
        salt_values |-> num_different_hash_functions]

RECURSIVE hash_loop_no_modulo(_, _, _, _, _, _)
\* The generator's loops yielding the unpacked numbers as they are
hash_loop_no_modulo(h, value, salt, hash_offset_index, provided, out) ==
    IF salt >= h.salt_values THEN [error |-> None, indices |-> out]
    ELSE IF hash_offset_index >= h.num_bit_index_numbers_in_hash
         THEN hash_loop_no_modulo(h, value, salt + 1, 0, provided, out)
    ELSE LET hash_value == digest(h.hash_function, salt, value)
             number == struct_unpack_from(h.format, hash_value,
                                          hash_offset_index * h.size).value
         IN IF provided + 1 = h.num_slices
            THEN [error |-> None, indices |-> Append(out, number)]
            ELSE hash_loop_no_modulo(h, value, salt, hash_offset_index + 1,
                                     provided + 1, Append(out, number))

RECURSIVE hash_loop(_, _, _, _, _, _)
\* The generator's two loops: salt `salt`, offset `hash_offset_index`,
\* `provided` indices yielded so far into `out`.  The modulo raises
\* ZeroDivisionError when a slice has no bits.
hash_loop(h, value, salt, hash_offset_index, provided, out) ==
    IF salt >= h.salt_values THEN [error |-> None, indices |-> out]
    ELSE IF hash_offset_index >= h.num_bit_index_numbers_in_hash
         THEN hash_loop(h, value, salt + 1, 0, provided, out)
    ELSE IF h.num_bits_per_slice = 0
         THEN [error |-> ZeroDivisionError, indices |-> out]
    ELSE LET hash_value == digest(h.hash_function, salt, value)
             number == struct_unpack_from(h.format, hash_value,
                                          hash_offset_index * h.size).value
         IN Bind({
                    IF provided + 1 = h.num_slices
                    THEN [error |-> None, indices |-> yielded]
                    ELSE hash_loop(h, value, salt, hash_offset_index + 1,
                                   provided + 1, yielded)
                                   : yielded \in {Append(out, number % h.num_bits_per_slice)}})

\* aggregated_hash_function(value): the bit index numbers it yields, in order
aggregated_hash_function(h, value) == hash_loop(h, value, 0, 0, 0, << >>)

\* ------------------------------------------------------------- bitarray
ValueError == "ValueError"
IndexError == "IndexError"

\* bitarray(n) followed by setall(False)
zeros(n) == [i \in 1..n |-> FALSE]

\* bitarray.tobytes(): eight cells a byte, the first cell the most significant
\* bit, the last byte padded with zeros
tobytes(bits) ==
    LET cell(i) == IF i <= Len(bits) /\ bits[i] THEN 1 ELSE 0
    IN [k \in 1..ceil_div(Len(bits), 8) |->
            cell(8 * k - 7) * 128 + cell(8 * k - 6) * 64 + cell(8 * k - 5) * 32
          + cell(8 * k - 4) * 16 + cell(8 * k - 3) * 8 + cell(8 * k - 2) * 4
          + cell(8 * k - 1) * 2 + cell(8 * k)]

\* bitarray().frombytes(bytes): eight cells for every byte
frombytes(bytes) ==
    [i \in 1..(8 * Len(bytes)) |->
        (bytes[((i - 1) \div 8) + 1] \div pow2(7 - ((i - 1) % 8))) % 2 = 1]

\* a |= b of two bitarrays; ValueError unless they are equally long
bitarray_ior(a, b) ==
    IF Len(a) # Len(b) THEN [error |-> ValueError, bits |-> a]
    ELSE [error |-> None, bits |-> [i \in 1..Len(a) |-> a[i] \/ b[i]]]

\* ------------------------------------------------------------- BloomFilter
\* num_slices with floor in place of ceil
num_slices_floor(false_positive_probability) ==
    neg_log2_milli(false_positive_probability) \div 1000

\* BloomFilter.num_slices, from the configuration
num_slices(false_positive_probability) ==
    ceil_div(neg_log2_milli(false_positive_probability), 1000)

\* BloomFilter._necessary_bit_size, in thousandths of a bit
necessary_bit_size(capacity, false_positive_probability) ==
    capacity * ((neg_log2_milli(false_positive_probability) * 1000) \div Ln2Milli)

\* BloomFilter.num_bits_per_slice
num_bits_per_slice(capacity, false_positive_probability) ==
    ceil_div(necessary_bit_size(capacity, false_positive_probability),
             1000 * num_slices(false_positive_probability))

\* BloomFilter.bit_size
bit_size(capacity, false_positive_probability) ==
    num_slices(false_positive_probability)
        * num_bits_per_slice(capacity, false_positive_probability)

\* No BloomFilter object.
NoFilter == [exists |-> FALSE]

\* What a call gives: the exception it raises (None when it returns), the
\* object it leaves and the value it returns (of the call's return type, and
\* meaningless when it raises).
Outcome(error, obj, ret) == [error |-> error, obj |-> obj, ret |-> ret]

\* __init__ counting the cells set in the bit array it is given as elements
\* mapped
init_counts_cells(capacity, false_positive_probability, hash_function, bit_array) ==
    IF false_positive_probability <= 0
    THEN Outcome(ValueError, NoFilter, FALSE)
    ELSE Bind({
         IF slices = 0 THEN Outcome(ZeroDivisionError, NoFilter, FALSE)
         ELSE Bind({
         IF slices * nbps < 0 THEN Outcome(ValueError, NoFilter, FALSE)
         ELSE Bind({
         IF merged.error # None THEN Outcome(merged.error, NoFilter, FALSE)
         ELSE Outcome(None,
                      [capacity |-> capacity,
                       false_positive_probability |-> false_positive_probability,
                       hash_function |-> hash_function,
                       num_elements_mapped |->
                           Cardinality({i \in 1..Len(merged.bits) :
                                           merged.bits[i]}),
                       num_slices |-> slices,
                       num_bits_per_slice |-> nbps,
                       bit_size |-> slices * nbps,
                       hash |-> make_aggregated_hash_function(slices, nbps,
                                                              hash_function),
                       bit_array |-> merged.bits],
                      TRUE)
                      : merged \in {IF Len(bit_array) > 0 THEN bitarray_ior(zeros(slices * nbps), slice(bit_array, 0, slices * nbps)) ELSE [error |-> None, bits |-> zeros(slices * nbps)]}})
                      : nbps \in {num_bits_per_slice(capacity, false_positive_probability)}})
                      : slices \in {num_slices(false_positive_probability)}})

\* BloomFilter.__init__; bit_array << >> stands for None as for bitarray().
\* The object holds what the cached properties and _hash hold once __init__
\* has read them.
init(capacity, false_positive_probability, hash_function, bit_array) ==
    IF false_positive_probability <= 0
    THEN Outcome(ValueError, NoFilter, FALSE)
    ELSE Bind({
         IF slices = 0 THEN Outcome(ZeroDivisionError, NoFilter, FALSE)
         ELSE Bind({
         IF slices * nbps < 0 THEN Outcome(ValueError, NoFilter, FALSE)
         ELSE Bind({
         IF merged.error # None THEN Outcome(merged.error, NoFilter, FALSE)
         ELSE Outcome(None,
                      [capacity |-> capacity,
                       false_positive_probability |-> false_positive_probability,
                       hash_function |-> hash_function,
                       num_elements_mapped |-> 0,
                       num_slices |-> slices,
                       num_bits_per_slice |-> nbps,
                       bit_size |-> slices * nbps,
                       hash |-> make_aggregated_hash_function(slices, nbps,
                                                              hash_function),
                       bit_array |-> merged.bits],
                      TRUE)
                      : merged \in {IF Len(bit_array) > 0 THEN bitarray_ior(zeros(slices * nbps), slice(bit_array, 0, slices * nbps)) ELSE [error |-> None, bits |-> zeros(slices * nbps)]}})
                      : nbps \in {num_bits_per_slice(capacity, false_positive_probability)}})
                      : slices \in {num_slices(false_positive_probability)}})

\* all(...) over a sequence of booleans
all(statuses) == \A i \in 1..Len(statuses) : statuses[i]

\* __contains__ reading every slice's cell in the first slice
contains_ignores_slice(f, value) ==
    Bind({
        IF hashed.error # None THEN Outcome(hashed.error, f, FALSE)
        ELSE Outcome(None, f,
                     all([k \in 1..Len(hashed.indices) |->
                             f.bit_array[hashed.indices[k] + 1]]))
                             : hashed \in {aggregated_hash_function(f.hash, value)}})

\* __contains__ setting the cells it probes
contains_sets_cells(f, value) ==
    Bind({
        LET indices == hashed.indices
            bit_index(k) == (k - 1) * f.num_bits_per_slice + indices[k]
            probed == {bit_index(k) + 1 : k \in 1..Len(indices)}
        IN IF hashed.error # None THEN Outcome(hashed.error, f, FALSE)
           ELSE Outcome(None,
                        [f EXCEPT !.bit_array =
                            [i \in 1..Len(f.bit_array) |->
                                f.bit_array[i] \/ i \in probed]],
                        \A i \in probed : f.bit_array[i])
                        : hashed \in {aggregated_hash_function(f.hash, value)}})

\* BloomFilter.__contains__
contains(f, value) ==
    Bind({
        LET indices == hashed.indices
            bit_index(k) == (k - 1) * f.num_bits_per_slice + indices[k]
        IN IF hashed.error # None THEN Outcome(hashed.error, f, FALSE)
           ELSE IF \E k \in 1..Len(indices) : bit_index(k) >= Len(f.bit_array)
           THEN Outcome(IndexError, f, FALSE)
           ELSE Outcome(None, f,
                        all([k \in 1..Len(indices) |->
                                f.bit_array[bit_index(k) + 1]]))
                                : hashed \in {aggregated_hash_function(f.hash, value)}})

\* BloomFilter.__len__
len(f) == f.num_elements_mapped

\* add_loop with line 315 left out: the cells are read and never set.
add_loop_never_sets(bit_array, indices, nbps, k, bit_statuses) ==
    LET bit_index(j) == (j - 1) * nbps + indices[j]
    IN IF \E j \in k..Len(indices) : bit_index(j) >= Len(bit_array)
       THEN [error |-> IndexError, bit_array |-> bit_array,
             bit_statuses |-> bit_statuses]
       ELSE [error |-> None, bit_array |-> bit_array,
             bit_statuses |->
                bit_statuses \o [j \in 1..(Len(indices) - k + 1) |->
                                    bit_array[bit_index(j + k - 1) + 1]]]

\* add_loop without the slice's offset: every slice's cell is read and set
\* in the first slice.
add_loop_first_slice(bit_array, indices, nbps, k, bit_statuses) ==
    LET cells == {indices[j] + 1 : j \in k..Len(indices)}
    IN IF \E i \in cells : i > Len(bit_array)
       THEN [error |-> IndexError, bit_array |-> bit_array,
             bit_statuses |-> bit_statuses]
       ELSE [error |-> None,
             bit_array |-> [i \in 1..Len(bit_array) |->
                               bit_array[i] \/ i \in cells],
             bit_statuses |->
                bit_statuses \o [j \in 1..(Len(indices) - k + 1) |->
                                    bit_array[indices[j + k - 1] + 1]]]

RECURSIVE add_loop_toggles(_, _, _, _, _)
\* add_loop inverting each cell where it sets it
add_loop_toggles(bit_array, indices, nbps, k, bit_statuses) ==
    IF k > Len(indices)
    THEN [error |-> None, bit_array |-> bit_array, bit_statuses |-> bit_statuses]
    ELSE LET bit_index == (k - 1) * nbps + indices[k]
         IN IF bit_index >= Len(bit_array)
            THEN [error |-> IndexError, bit_array |-> bit_array,
                  bit_statuses |-> bit_statuses]
            ELSE add_loop_toggles(
                     [bit_array EXCEPT ![bit_index + 1] = ~@], indices, nbps,
                     k + 1, Append(bit_statuses, bit_array[bit_index + 1]))

RECURSIVE add_loop_stops_at_set_cell(_, _, _, _, _)
\* add_loop ending at the first cell it finds set
add_loop_stops_at_set_cell(bit_array, indices, nbps, k, bit_statuses) ==
    IF k > Len(indices)
    THEN [error |-> None, bit_array |-> bit_array, bit_statuses |-> bit_statuses]
    ELSE LET bit_index == (k - 1) * nbps + indices[k]
         IN IF bit_index >= Len(bit_array)
            THEN [error |-> IndexError, bit_array |-> bit_array,
                  bit_statuses |-> bit_statuses]
            ELSE IF bit_array[bit_index + 1]
            THEN [error |-> None, bit_array |-> bit_array,
                  bit_statuses |-> Append(bit_statuses, TRUE)]
            ELSE add_loop_stops_at_set_cell(
                     [bit_array EXCEPT ![bit_index + 1] = TRUE], indices, nbps,
                     k + 1, Append(bit_statuses, FALSE))

RECURSIVE add_loop(_, _, _, _, _)
\* The loop of add over the slices: cell after cell is read, then set.
add_loop(bit_array, indices, nbps, k, bit_statuses) ==
    IF k > Len(indices)
    THEN [error |-> None, bit_array |-> bit_array, bit_statuses |-> bit_statuses]
    ELSE LET bit_index == (k - 1) * nbps + indices[k]
         IN IF bit_index >= Len(bit_array)
            THEN [error |-> IndexError, bit_array |-> bit_array,
                  bit_statuses |-> bit_statuses]
            ELSE Bind({
                         add_loop(written, indices, nbps, k + 1,
                                  Append(bit_statuses, bit_array[bit_index + 1]))
                                  : written \in {[bit_array EXCEPT ![bit_index + 1] = TRUE]}})

\* BloomFilter.add past its capacity check (lines 310-319)
add_unchecked(f, value) ==
    Bind({
         IF hashed.error # None THEN Outcome(hashed.error, f, FALSE)
         ELSE Bind({
         IF done.error # None
         THEN Outcome(done.error, [f EXCEPT !.bit_array = done.bit_array], FALSE)
         ELSE Outcome(None,
                      [f EXCEPT !.bit_array = done.bit_array,
                                !.num_elements_mapped = @ + 1],
                      all(done.bit_statuses))
                      : done \in {add_loop(f.bit_array, hashed.indices, f.num_bits_per_slice, 1, << >>)}})
                      : hashed \in {aggregated_hash_function(f.hash, value)}})

\* add reading each cell after it has set it: it returns True always
add_reads_after_write(f, value) ==
    IF f.num_elements_mapped > f.capacity THEN Outcome(IndexError, f, FALSE)
    ELSE Bind({
         IF made.error # None THEN made ELSE [made EXCEPT !.ret = TRUE]
         : made \in {add_unchecked(f, value)}})

\* add with the check >= capacity
add_guard_ge(f, value) ==
    IF f.num_elements_mapped >= f.capacity THEN Outcome(IndexError, f, FALSE)
    ELSE add_unchecked(f, value)

\* add counting a value only when it set a new cell
add_counts_new_only(f, value) ==
    IF f.num_elements_mapped > f.capacity THEN Outcome(IndexError, f, FALSE)
    ELSE Bind({
         IF made.error = None /\ made.ret
         THEN [made EXCEPT !.obj.num_elements_mapped = @ - 1]
         ELSE made
         : made \in {add_unchecked(f, value)}})

\* add checking the capacity after its loop has set the cells
add_checks_late(f, value) ==
    Bind({
         IF made.error = None /\ f.num_elements_mapped > f.capacity
         THEN Outcome(IndexError,
                      [f EXCEPT !.bit_array = made.obj.bit_array], FALSE)
         ELSE made
         : made \in {add_unchecked(f, value)}})

\* add leaving the object hashing with md5
add_switches_hash(f, value) ==
    IF f.num_elements_mapped > f.capacity THEN Outcome(IndexError, f, FALSE)
    ELSE Bind({
         IF made.error # None THEN made
         ELSE [made EXCEPT !.obj.hash.hash_function = "md5"]
         : made \in {add_unchecked(f, value)}})

\* add with the check > capacity + 1
add_guard_one_more(f, value) ==
    IF f.num_elements_mapped > f.capacity + 1
    THEN Outcome(IndexError, f, FALSE)
    ELSE add_unchecked(f, value)

\* BloomFilter.add
add(f, value) ==
    IF f.num_elements_mapped > f.capacity THEN Outcome(IndexError, f, FALSE)
    ELSE add_unchecked(f, value)

RECURSIVE update_loop_quiet(_, _, _, _)
\* The loop of update ending at an add that raises, the results so far
\* returned
update_loop_quiet(f, values, k, results) ==
    IF k > Len(values) THEN Outcome(None, f, results)
    ELSE Bind({
         IF one.error # None THEN Outcome(None, one.obj, results)
         ELSE update_loop_quiet(one.obj, values, k + 1,
                                Append(results, one.ret))
         : one \in {add(f, values[k])}})

RECURSIVE update_loop(_, _, _, _)
\* The generator expression of update: add after add, until one raises.
update_loop(f, values, k, results) ==
    IF k > Len(values) THEN Outcome(None, f, results)
    ELSE Bind({
         IF one.error # None THEN Outcome(one.error, one.obj, << >>)
         ELSE update_loop(one.obj, values, k + 1, Append(results, one.ret))
         : one \in {add(f, values[k])}})

\* update telling of each value whether the filter held it before the call
update_from_snapshot(f, values) ==
    Bind({
         IF done.error # None THEN done
         ELSE [done EXCEPT !.ret = [i \in 1..Len(values) |->
                                       contains(f, values[i]).ret]]
         : done \in {update_loop(f, values, 1, << >>)}})

\* BloomFilter.update
update(f, values) == update_loop(f, values, 1, << >>)

\* BloomFilter.from_values
from_values(values, capacity, false_positive_probability, hash_function) ==
    Bind({
         IF made.error # None THEN made
         ELSE Bind({
              IF filled.error # None
              THEN Outcome(filled.error, NoFilter, FALSE)
              ELSE Outcome(None, filled.obj, TRUE)
              : filled \in {update(made.obj, values)}})
              : made \in {init(capacity, false_positive_probability, hash_function, << >>)}})

\* from_values_2 with int() in place of ceil
from_values_2_floor(values, capacity_proportion, false_positive_probability, hash_function) ==
    from_values(values, (capacity_proportion * Len(values)) \div 2,
                false_positive_probability, hash_function)

\* BloomFilter.from_values_2; capacity_proportion in halves (3 is 1.5)
from_values_2(values, capacity_proportion, false_positive_probability, hash_function) ==
    from_values(values, ceil_div(capacity_proportion * Len(values), 2),
                false_positive_probability, hash_function)

\* hash_function.__name__.encode(): the name's bytes
name_bytes(hash_function) ==
    IF hash_function = "md5" THEN <<109, 100, 53>>
    ELSE IF hash_function = "my_hash" THEN <<109, 121, 95, 104, 97, 115, 104>>
    ELSE <<115, 104, 97, 51, 95, 50, 53, 54>>

\* getattr(hashlib, name, hashlib.sha3_256): a default for unknown names
hashlib_getattr_default(name) ==
    IF \E h \in HashFunctions : name_bytes(h) = name
    THEN [error |-> None,
          value |-> CHOOSE h \in HashFunctions : name_bytes(h) = name]
    ELSE [error |-> None, value |-> "sha3_256"]

\* getattr(hashlib, name) for the decoded name: the hash function of that
\* name, AttributeError when hashlib has none
hashlib_getattr(name) ==
    IF \E h \in HashFunctions : name_bytes(h) = name
    THEN [error |-> None,
          value |-> CHOOSE h \in HashFunctions : name_bytes(h) = name]
    ELSE [error |-> AttributeError, value |-> None]

\* BloomFilter.export_bytes
export_bytes(f) ==
    LET capacity_bytes == struct_pack_Q(f.capacity)
        false_positive_probability_bytes ==
            struct_pack_f(f.false_positive_probability)
        hash_function_name_bytes == name_bytes(f.hash_function)
        bit_array_bytes == tobytes(f.bit_array)
    IN capacity_bytes \o false_positive_probability_bytes
         \o struct_pack_Q(Len(hash_function_name_bytes))
         \o hash_function_name_bytes
         \o struct_pack_Q(Len(bit_array_bytes))
         \o bit_array_bytes

\* BloomFilter.import_bytes; hash_function None when the caller gives none
import_bytes(data, hash_function, base_offset) ==
    LET capacity == struct_unpack_from(">Q", data, base_offset)
        offset1 == base_offset + struct_calcsize(">Q")
        false_positive_probability == struct_unpack_from("f", data, offset1)
        offset2 == offset1 + struct_calcsize("f")
        hash_function_name_bytes_len == struct_unpack_from(">Q", data, offset2)
        offset3 == offset2 + struct_calcsize(">Q")
        hash_function_name ==
            slice(data, offset3, offset3 + hash_function_name_bytes_len.value)
        offset4 == offset3 + hash_function_name_bytes_len.value
        bit_array_bytes_len == struct_unpack_from(">Q", data, offset4)
        offset5 == offset4 + struct_calcsize(">Q")
        bit_array ==
            frombytes(slice(data, offset5, offset5 + bit_array_bytes_len.value))
        looked_up == IF hash_function # None
                     THEN [error |-> None, value |-> hash_function]
                     ELSE hashlib_getattr(hash_function_name)
    IN IF capacity.error # None THEN Outcome(capacity.error, NoFilter, FALSE)
       ELSE IF false_positive_probability.error # None
       THEN Outcome(false_positive_probability.error, NoFilter, FALSE)
       ELSE IF hash_function_name_bytes_len.error # None
       THEN Outcome(hash_function_name_bytes_len.error, NoFilter, FALSE)
       ELSE IF bit_array_bytes_len.error # None
       THEN Outcome(bit_array_bytes_len.error, NoFilter, FALSE)
       ELSE IF looked_up.error # None
       THEN Outcome(looked_up.error, NoFilter, FALSE)
       ELSE init(capacity.value, false_positive_probability.value,
                 looked_up.value, bit_array)

\* ------------------------------------------------------------- heap
\* The functions of heap.py on a list of integers, with the default get_value
\* and compare.  A list index i of the code is position i + 1 of the
\* sequence.  swap_elements is the name of the function a caller passes; the
\* caller's own function swaps the two elements as the default does.

DefaultSwapElements == "_default_swap_elements"
SwapFunctions == {DefaultSwapElements, "swap_elements"}

\* _default_get_value: heap_sequence[index]; a negative index counts from the
\* end of the list
default_get_value(heap_sequence, index) ==
    IF index < 0 THEN heap_sequence[Len(heap_sequence) + index + 1]
    ELSE heap_sequence[index + 1]

\* _default_set_root without the move of the last element to the root
default_set_root_drops_last(heap_sequence) ==
    SubSeq(heap_sequence, 1, Len(heap_sequence) - 1)

\* _default_set_root: the list it leaves
default_set_root(heap_sequence) ==
    Bind({
         IF popped # << >> THEN [popped EXCEPT ![1] = last_element]
         ELSE popped
         : popped \in {SubSeq(heap_sequence, 1, Len(heap_sequence) - 1)},
           last_element \in {heap_sequence[Len(heap_sequence)]}})

\* _default_swap_elements, and the swap a caller's function makes
default_swap_elements(heap_sequence, element_1_index, element_2_index) ==
    [heap_sequence EXCEPT ![element_1_index + 1] = heap_sequence[element_2_index + 1],
                          ![element_2_index + 1] = heap_sequence[element_1_index + 1]]

\* _default_push_element
default_push_element(heap_sequence, element) == Append(heap_sequence, element)

\* _default_compare
default_compare(heap_sequence, left_hand_side_index, right_hand_side_index) ==
    default_get_value(heap_sequence, left_hand_side_index)
      < default_get_value(heap_sequence, right_hand_side_index)

RECURSIVE heapify_down(_, _, _)
\* _heapify_down: the list it leaves and the swap functions it has called, in
\* order.  The call of itself names no swap_elements.
heapify_down(heap_sequence, node_index, swap_elements) ==
    LET left_index == 2 * node_index + 1
        right_index == 2 * node_index + 1 + 1
        left == left_index < Len(heap_sequence)
        right == right_index < Len(heap_sequence)
        after_left ==
            IF left /\ default_compare(heap_sequence, left_index, node_index)
            THEN left_index ELSE node_index
        highest_priority_index ==
            IF right /\ default_compare(heap_sequence, right_index, after_left)
            THEN right_index ELSE after_left
    IN IF highest_priority_index = node_index
       THEN [heap_sequence |-> heap_sequence, swaps |-> << >>]
       ELSE Bind({
            [below EXCEPT !.swaps = <<swap_elements>> \o @]
            : below \in {heapify_down(
                             default_swap_elements(heap_sequence, node_index,
                                                   highest_priority_index),
                             highest_priority_index, DefaultSwapElements)}})

RECURSIVE heapify_up_loop_spares_root(_, _, _, _)
\* The while loop of _heapify_up with the test parent_element_index > 0
heapify_up_loop_spares_root(heap_sequence, current_element_index, swap_elements, swaps) ==
    LET parent_element_index == (current_element_index - 1) \div 2
    IN IF default_compare(heap_sequence, current_element_index,
                          parent_element_index)
          /\ parent_element_index > 0
       THEN heapify_up_loop_spares_root(
                default_swap_elements(heap_sequence, current_element_index,
                                      parent_element_index),
                parent_element_index, swap_elements,
                Append(swaps, swap_elements))
       ELSE [heap_sequence |-> heap_sequence, swaps |-> swaps]

RECURSIVE heapify_up_loop(_, _, _, _)
\* The while loop of _heapify_up
heapify_up_loop(heap_sequence, current_element_index, swap_elements, swaps) ==
    LET parent_element_index == (current_element_index - 1) \div 2
    IN IF default_compare(heap_sequence, current_element_index,
                          parent_element_index)
          /\ parent_element_index >= 0
       THEN heapify_up_loop(
                default_swap_elements(heap_sequence, current_element_index,
                                      parent_element_index),
                parent_element_index, swap_elements,
                Append(swaps, swap_elements))
       ELSE [heap_sequence |-> heap_sequence, swaps |-> swaps]

\* _heapify_up
heapify_up(heap_sequence, node_index, swap_elements) ==
    heapify_up_loop(heap_sequence, node_index, swap_elements, << >>)

RECURSIVE make_heap_loop(_, _, _, _)
\* The for loop of make_heap, from node_index down to 0
make_heap_loop(heap_sequence, node_index, swap_elements, swaps) ==
    IF node_index < 0
    THEN [heap_sequence |-> heap_sequence, swaps |-> swaps]
    ELSE Bind({
         make_heap_loop(down.heap_sequence, node_index - 1, swap_elements,
                        swaps \o down.swaps)
         : down \in {heapify_down(heap_sequence, node_index, swap_elements)}})

\* make_heap beginning one node above the last parent
make_heap_skips_last_parent(heap_sequence, swap_elements) ==
    LET last_node_index == Len(heap_sequence) - 1
    IN make_heap_loop(heap_sequence, ((last_node_index - 1) \div 2) - 1,
                      swap_elements, << >>)

\* make_heap: the list it leaves and returns
make_heap(heap_sequence, swap_elements) ==
    LET last_node_index == Len(heap_sequence) - 1
    IN make_heap_loop(heap_sequence, (last_node_index - 1) \div 2,
                      swap_elements, << >>)

\* heappop: IndexError of get_value on an empty list; else the root and the
\* list left
heappop(heap_sequence, swap_elements) ==
    IF heap_sequence = << >>
    THEN [error |-> IndexError, heap_sequence |-> heap_sequence, swaps |-> << >>,
          ret |-> 0]
    ELSE Bind({
         [error |-> None, heap_sequence |-> down.heap_sequence,
          swaps |-> down.swaps, ret |-> root_element]
         : root_element \in {default_get_value(heap_sequence, 0)},
           down \in {heapify_down(default_set_root(heap_sequence), 0,
                                  swap_elements)}})

\* heappush
heappush(element, heap_sequence, swap_elements) ==
    LET pushed == default_push_element(heap_sequence, element)
    IN Bind({
            [error |-> None, heap_sequence |-> up.heap_sequence,
             swaps |-> up.swaps, ret |-> element]
            : up \in {heapify_up(pushed, Len(pushed) - 1, swap_elements)}})

\* ------------------------------------------------------- asyncio/__init__.py
TypeError == "TypeError"

\* What a caller passes as result_callback: a function, or a function declared
\* async, whose call makes a coroutine object and runs nothing of its body.
ResultCallbacks == {"function", "async function"}

\* inspect.iscoroutine(obj): true of a coroutine object, not of a function
iscoroutine(obj) == obj = "coroutine"

\* passed_iteration_value_contextvar before a set and after its reset
Unset == "unset"

\* The frame of limited_gather before it is called.
NoGather ==
    [pc |-> "idle", iterable |-> << >>, result_callback |-> "function",
     num_concurrent |-> 0, index |-> 0, request_limiting_semaphore |-> 0,
     all_finished_event |-> FALSE, num_started |-> 0, num_finished |-> 0,
     passed_iteration_value_contextvar |-> Unset]

\* limited_gather up to its loop: an empty iterable returns at once, else the
\* semaphore, the event, the counters and the context variable are made
limited_gather(iterable, result_callback, num_concurrent) ==
    [NoGather EXCEPT
        !.pc = IF iterable = << >> THEN "returned" ELSE "for",
        !.iterable = iterable,
        !.result_callback = result_callback,
        !.num_concurrent = num_concurrent,
        !.request_limiting_semaphore =
            IF iterable = << >> THEN 0 ELSE num_concurrent]

\* copy_context(): the value the context variable has in the copy
copy_context(frame) == frame.passed_iteration_value_contextvar

\* A pass of the loop that takes no permit of the semaphore.
for_body_without_acquire(frame, iteration_value) ==
    LET started ==
            [frame EXCEPT
                !.num_started = @ + 1,
                !.passed_iteration_value_contextvar = iteration_value]
    IN [gather |-> [started EXCEPT
                       !.passed_iteration_value_contextvar =
                           frame.passed_iteration_value_contextvar,
                       !.index = @ + 1],
        task |-> [value |-> iteration_value, state |-> "pending",
                  context |-> copy_context(started)]]

\* A pass of the loop once acquire has a permit: the permit is taken, the
\* context variable is set, the task is made with task_done_callback to run in
\* a copy of the context, and the context variable is reset
for_body(frame, iteration_value) ==
    LET started ==
            [frame EXCEPT
                !.request_limiting_semaphore = @ - 1,
                !.num_started = @ + 1,
                !.passed_iteration_value_contextvar = iteration_value]
    IN [gather |-> [started EXCEPT
                       !.passed_iteration_value_contextvar =
                           frame.passed_iteration_value_contextvar,
                       !.index = @ + 1],
        task |-> [value |-> iteration_value, state |-> "pending",
                  context |-> copy_context(started)]]

\* A done callback that counts and leaves the event as it is.
response_callback_done_callback_sets_nothing(frame) ==
    [frame EXCEPT !.num_finished = @ + 1]

\* response_callback_done_callback
response_callback_done_callback(frame) ==
    [frame EXCEPT !.num_finished = @ + 1, !.all_finished_event = TRUE]

\* result_callback(finished_task, value): the call as the callback sees it; a
\* function's body runs in the call and may raise, an async function's call
\* runs nothing of its body
result_callback_call(result_callback, finished_task, value, raises) ==
    [task |-> finished_task, value |-> value,
     ran |-> result_callback = "function",
     raised |-> result_callback = "function" /\ raises]

\* A task_done_callback that reads the context variable of limited_gather's
\* own context.
task_done_callback_in_shared_context(frame, finished_task, context, raises) ==
    LET released == [frame EXCEPT !.request_limiting_semaphore = @ + 1]
        value == frame.passed_iteration_value_contextvar
    IN IF iscoroutine(frame.result_callback)
       THEN [error |-> TypeError, gather |-> released, calls |-> << >>]
       ELSE [error |-> None,
             gather |-> response_callback_done_callback(released),
             calls |-> IF value = Unset THEN << >>
                       ELSE <<result_callback_call(frame.result_callback,
                                                   finished_task, value,
                                                   raises)>>]

\* task_done_callback(finished_task), run in a context where the context
\* variable has the value context: the permit is given back; a coroutine object
\* is not callable, and the TypeError leaves the callback before it counts;
\* else result_callback is called, unless get() raises LookupError, whatever
\* is raised is logged, and response_callback_done_callback counts
task_done_callback(frame, finished_task, context, raises) ==
    LET released == [frame EXCEPT !.request_limiting_semaphore = @ + 1]
    IN IF iscoroutine(frame.result_callback)
       THEN [error |-> TypeError, gather |-> released, calls |-> << >>]
       ELSE [error |-> None,
             gather |-> response_callback_done_callback(released),
             calls |-> IF context = Unset THEN << >>
                       ELSE <<result_callback_call(frame.result_callback,
                                                   finished_task, context,
                                                   raises)>>]

\* ------------------------------------------------------------------ grid.py
KeyError == "KeyError"

\* TileValue.UNOCCUPIED, and the values a caller puts in a tile
UNOCCUPIED == "TileValue.UNOCCUPIED"
TileValues == {UNOCCUPIED, "x", "y"}

Direction ==
    {"NORTH_WEST", "NORTH", "NORTH_EAST", "EAST", "SOUTH_EAST", "SOUTH",
     "SOUTH_WEST", "WEST"}

\* The GridCoordinate (row_index, column_index) of each tile of
\* Grid(size=MaxGridSize)
Coordinates == (0..(MaxGridSize - 1)) \X (0..(MaxGridSize - 1))

\* Tile.is_occupied, of the tile's _value
is_occupied(value) == value # UNOCCUPIED

\* The setter of Tile.value: the tiles' values and the map it leaves; del
\* raises KeyError for a coordinate the map does not have
value_setter(tiles, occupied, coordinate, set_value) ==
    IF ~is_occupied(tiles[coordinate])
    THEN IF set_value = UNOCCUPIED
         THEN [error |-> None, grid |-> tiles, occupied |-> occupied]
         ELSE [error |-> None,
               grid |-> [tiles EXCEPT ![coordinate] = set_value],
               occupied |-> occupied \cup {coordinate}]
    ELSE IF set_value = UNOCCUPIED /\ coordinate \notin occupied
         THEN [error |-> KeyError, grid |-> tiles, occupied |-> occupied]
         ELSE [error |-> None,
               grid |-> [tiles EXCEPT ![coordinate] = set_value],
               occupied |-> IF set_value = UNOCCUPIED
                            THEN occupied \ {coordinate}
                            ELSE occupied]

\* Tile.clear_value: the tile's _value is assigned, and nothing else
tile_clear_value(tiles, occupied, coordinate) ==
    [error |-> None, grid |-> [tiles EXCEPT ![coordinate] = UNOCCUPIED],
     occupied |-> occupied]

\* Tile.get_adjacent(direction) at distance 1: the coordinate of the tile,
\* IndexError for a negative index and for one past the rows or the columns
get_adjacent(coordinate, direction) ==
    LET row_index ==
            CASE direction \in {"NORTH_WEST", "NORTH", "NORTH_EAST"} ->
                    coordinate[1] - 1
              [] direction \in {"SOUTH_EAST", "SOUTH", "SOUTH_WEST"} ->
                    coordinate[1] + 1
              [] OTHER -> coordinate[1]
        column_index ==
            CASE direction \in {"NORTH_WEST", "SOUTH_WEST", "WEST"} ->
                    coordinate[2] - 1
              [] direction \in {"NORTH_EAST", "EAST", "SOUTH_EAST"} ->
                    coordinate[2] + 1
              [] OTHER -> coordinate[2]
    IN IF \/ row_index < 0
          \/ column_index < 0
          \/ row_index >= MaxGridSize
          \/ column_index >= MaxGridSize
       THEN [error |-> IndexError, coordinate |-> coordinate]
       ELSE [error |-> None, coordinate |-> <<row_index, column_index>>]

\* The coordinates of the tiles of a neighborhood: the adjacent tiles in the
\* directions that raise no IndexError
neighborhood(coordinate, directions) ==
    {get_adjacent(coordinate, direction).coordinate :
        direction \in {d \in directions :
                          get_adjacent(coordinate, d).error = None}}

moore_neighborhood(coordinate) == neighborhood(coordinate, Direction)

von_neumann_neighborhood(coordinate) ==
    neighborhood(coordinate, {"NORTH", "EAST", "SOUTH", "WEST"})

\* frontier_moore: the coordinates of the tiles it returns, which are the
\* unoccupied neighbors of the tiles of the map
frontier_moore(tiles, occupied) ==
    {neighbor \in Coordinates :
        \E coordinate \in occupied :
            /\ neighbor \in moore_neighborhood(coordinate)
            /\ ~is_occupied(tiles[neighbor])}

\* frontier_von_neumann, likewise
frontier_von_neumann(tiles, occupied) ==
    {neighbor \in Coordinates :
        \E coordinate \in occupied :
            /\ neighbor \in von_neumann_neighborhood(coordinate)
            /\ ~is_occupied(tiles[neighbor])}

\* pre_frontier_moore: the coordinates of the tiles of the map it returns, each
\* of which has an unoccupied neighbor
pre_frontier_moore(tiles, occupied) ==
    {coordinate \in occupied :
        \E neighbor \in moore_neighborhood(coordinate) :
            ~is_occupied(tiles[neighbor])}

\* ------------------------------------------------------------- the program
VARIABLES
    bf,         \* the BloomFilter object the caller holds, or NoFilter
    last,       \* the call the caller is looking at: its name, argument,
                \* exception and return value; Idle between calls
    inserted,   \* the values add has accepted into bf (history)
    num_added,  \* how many add calls on bf returned without raising (history)
    heap,       \* the list the caller keeps as a heap
    swap_calls, \* the swap functions the last heap call has called, in order
    gather,     \* the frame of the limited_gather coroutine: its arguments,
                \* its locals and the line it is at
    tasks,      \* the iteration tasks limited_gather has created, in order
    callback_calls, \* the calls of result_callback so far, in order (history)
    grid,       \* the value of each tile of the Grid the caller holds
    occupied_tile_coordinate_to_occupied_tile \* the coordinates in that map

\* last.op comes first: it differs across every step, and tells two values of
\* last apart before their ret, which is of the call's return type.
vars ==
    <<last.op, bf, last, inserted, num_added, heap, swap_calls, gather, tasks,
      callback_calls, grid, occupied_tile_coordinate_to_occupied_tile>>

\* What the calls on a filter leave alone, and what the heap calls do.
heap_vars == <<heap, swap_calls>>
gather_vars == <<gather, tasks, callback_calls>>
grid_vars == <<grid, occupied_tile_coordinate_to_occupied_tile>>
bloom_filter_vars == <<bf, inserted, num_added>>

Call(op, arg, outcome) ==
    [op |-> op, arg |-> arg, error |-> outcome.error, ret |-> outcome.ret]

\* The batches a caller passes to update.
Batches == UNION {[1..n -> Values] : n \in 0..MaxBatch}

\* The collections a caller passes to the from_values constructors.
Collections == UNION {[1..n -> Values] : n \in 0..(MaxBatch + 1)}

RECURSIVE accepted(_, _, _)
\* How many of the adds of update(f, values) return before one raises.
accepted(f, values, k) ==
    IF k > Len(values) THEN Len(values)
    ELSE Bind({
            IF one.error # None THEN k - 1
            ELSE accepted(one.obj, values, k + 1)
            : one \in {add(f, values[k])}})

\* No call's result is at hand.
Idle == Call("none", 0, Outcome(None, NoFilter, FALSE))

Init ==
    /\ bf = NoFilter
    /\ last = Idle
    /\ inserted = {}
    /\ num_added = 0
    /\ heap = << >>
    /\ swap_calls = << >>
    /\ gather = NoGather
    /\ tasks = << >>
    /\ callback_calls = << >>
    /\ grid = [coordinate \in Coordinates |-> UNOCCUPIED]
    /\ occupied_tile_coordinate_to_occupied_tile = {}

\* bf = BloomFilter(capacity, false_positive_probability, hash_function)
New(capacity, false_positive_probability, hash_function) ==
    /\ last.op = "none"
    /\ bf = NoFilter
    /\ \E made \in {init(capacity, false_positive_probability, hash_function,
                         << >>)} :
          /\ bf' = made.obj
          /\ last' = Call("init",
                         [capacity |-> capacity,
                          false_positive_probability |->
                              false_positive_probability,
                          hash_function |-> hash_function],
                         made)
    /\ UNCHANGED <<inserted, num_added, heap_vars, gather_vars, grid_vars>>

\* bf = BloomFilter.from_values(values, capacity, ...)
FromValues(values, capacity, false_positive_probability, hash_function) ==
    /\ last.op = "none"
    /\ bf = NoFilter
    /\ \E made \in {from_values(values, capacity, false_positive_probability,
                                hash_function)} :
          /\ bf' = made.obj
          /\ last' = Call("from_values",
                         [values |-> values, capacity |-> capacity,
                          false_positive_probability |->
                              false_positive_probability,
                          hash_function |-> hash_function],
                         made)
          /\ inserted' = IF made.error = None
                         THEN {values[k] : k \in 1..Len(values)} ELSE {}
          /\ num_added' = IF made.error = None THEN Len(values) ELSE 0
    /\ UNCHANGED <<heap_vars, gather_vars, grid_vars>>

\* bf = BloomFilter.from_values_2(values, capacity_proportion, ...)
FromValues2(values, capacity_proportion, false_positive_probability, hash_function) ==
    /\ last.op = "none"
    /\ bf = NoFilter
    /\ \E made \in {from_values_2(values, capacity_proportion,
                                  false_positive_probability, hash_function)} :
          /\ bf' = made.obj
          /\ last' = Call("from_values_2",
                         [values |-> values, capacity_proportion |-> capacity_proportion,
                          false_positive_probability |->
                              false_positive_probability,
                          hash_function |-> hash_function],
                         made)
          /\ inserted' = IF made.error = None
                         THEN {values[k] : k \in 1..Len(values)} ELSE {}
          /\ num_added' = IF made.error = None THEN Len(values) ELSE 0
    /\ UNCHANGED <<heap_vars, gather_vars, grid_vars>>

\* bf.add(value)
Add(value) ==
    /\ last.op = "none"
    /\ bf # NoFilter
    /\ \E done \in {add(bf, value)} :
          /\ bf' = done.obj
          /\ last' = Call("add", value, done)
          /\ inserted' = IF done.error = None THEN inserted \cup {value}
                         ELSE inserted
          /\ num_added' = IF done.error = None THEN num_added + 1
                          ELSE num_added
    /\ UNCHANGED <<heap_vars, gather_vars, grid_vars>>

\* bf.update(*values)
Update(values) ==
    /\ last.op = "none"
    /\ bf # NoFilter
    /\ \E done \in {update(bf, values)}, n \in {accepted(bf, values, 1)} :
          /\ bf' = done.obj
          /\ last' = Call("update", values, done)
          /\ inserted' = inserted \cup {values[k] : k \in 1..n}
          /\ num_added' = num_added + n
    /\ UNCHANGED <<heap_vars, gather_vars, grid_vars>>

\* value in bf
Contains(value) ==
    /\ last.op = "none"
    /\ bf # NoFilter
    /\ \E done \in {contains(bf, value)} :
          /\ bf' = done.obj
          /\ last' = Call("contains", value, done)
    /\ UNCHANGED <<inserted, num_added, heap_vars, gather_vars, grid_vars>>

\* len(bf)
LenCall ==
    /\ last.op = "none"
    /\ bf # NoFilter
    /\ last' = Call("len", 0, Outcome(None, bf, len(bf)))
    /\ UNCHANGED <<bf, inserted, num_added, heap_vars, gather_vars, grid_vars>>

\* bf.export_bytes(): the caller is handed the bytes
ExportBytes ==
    /\ last.op = "none"
    /\ bf # NoFilter
    /\ last' = Call("export_bytes", 0, Outcome(None, bf, export_bytes(bf)))
    /\ UNCHANGED <<bf, inserted, num_added, heap_vars, gather_vars, grid_vars>>

\* The bytes import_bytes is given, of the bytes export_bytes returned: the
\* last `fewer` bytes of the bit array left out by the writer, the length
\* before them saying so, and then the last `cut` bytes of it all lost.
received(exported, cut, fewer) ==
    LET name_len == unpack_be(SubSeq(exported, 13, 20))
        array_len == unpack_be(SubSeq(exported, 21 + name_len, 28 + name_len))
        written == SubSeq(exported, 1, 20 + name_len)
                     \o struct_pack_Q(array_len - fewer)
                     \o SubSeq(exported, 29 + name_len,
                               28 + name_len + array_len - fewer)
    IN SubSeq(written, 1, Len(written) - cut)

\* What can have happened to the bytes: nothing, a cut, or a shorter array
\* when there are bytes of the array.
Damages(exported) ==
    LET name_len == unpack_be(SubSeq(exported, 13, 20))
    IN {[cut |-> k, fewer |-> 0] : k \in 0..MaxCut}
         \cup {[cut |-> 0, fewer |-> 1] :
                  k \in 1..min(1, Len(exported) - 28 - name_len)}

\* bf = BloomFilter.import_bytes(data, hash_function) of the bytes that
\* export_bytes has just returned, as received; the caller keeps the object it
\* held when the call raises
ImportBytes(hash_function, damage) ==
    /\ last.op = "export_bytes"
    /\ damage \in Damages(last.ret)
    /\ \E made \in {import_bytes(received(last.ret, damage.cut, damage.fewer),
                                 hash_function, 0)} :
          /\ bf' = IF made.error = None THEN made.obj ELSE bf
          /\ last' = Call("import_bytes",
                         [hash_function |-> hash_function, cut |-> damage.cut,
                          fewer |-> damage.fewer],
                         made)
          /\ inserted' = IF made.error = None THEN {} ELSE inserted
          /\ num_added' = IF made.error = None THEN 0 ELSE num_added
    /\ UNCHANGED <<heap_vars, gather_vars, grid_vars>>

\* The caller has read the result and goes on.
Return ==
    /\ last.op # "none"
    /\ last' = Idle
    /\ UNCHANGED <<bf, inserted, num_added, heap_vars, gather_vars, grid_vars>>

Undamaged == [cut |-> 0, fewer |-> 0]

\* The numbers of slices and of bits in a slice a caller of
\* _make_aggregated_hash_function passes: on either side of the format codes'
\* thresholds.
SliceCounts == 1..MaxSlices
SliceBits == {1, 2, 3, 5, pow2(15) - 1, pow2(15), pow2(16) - 1, pow2(16)}

\* tuple(_make_aggregated_hash_function(num_slices, num_bits_per_slice,
\* hash_function)(value)): the generator is made and run to its end
AggregatedHashFunction(slices, slice_bits, hash_function, value) ==
    /\ last.op = "none"
    /\ \E hashed \in {aggregated_hash_function(
                          make_aggregated_hash_function(slices, slice_bits,
                                                        hash_function),
                          value)} :
          last' = Call("aggregated_hash_function",
                       [num_slices |-> slices,
                        num_bits_per_slice |-> slice_bits,
                        hash_function |-> hash_function,
                        value |-> value],
                       Outcome(hashed.error, NoFilter, hashed.indices))
    /\ UNCHANGED <<bf, inserted, num_added, heap_vars, gather_vars, grid_vars>>

\* The values a caller keeps in a heap, and the lists it passes to make_heap.
Elements == 0..MaxElement
Lists == UNION {[1..n -> Elements] : n \in 0..MaxHeapLen}

\* A call on the heap: its outcome, the list and the swap calls it leaves.
HeapCall(op, arg, done) ==
    /\ last' = Call(op, arg, Outcome(done.error, NoFilter, done.ret))
    /\ heap' = done.heap_sequence
    /\ swap_calls' = done.swaps
    /\ UNCHANGED <<bloom_filter_vars, gather_vars, grid_vars>>

\* heap = make_heap(heap_sequence, swap_elements=swap_elements), of a list the
\* caller has when its heap is empty; what the call leaves does not depend on
\* the heap it replaces
MakeHeap(heap_sequence, swap_elements) ==
    /\ last.op = "none"
    /\ heap = << >>
    /\ \E made \in {make_heap(heap_sequence, swap_elements)} :
          HeapCall("make_heap",
                   [heap_sequence |-> heap_sequence,
                    swap_elements |-> swap_elements],
                   [error |-> None, heap_sequence |-> made.heap_sequence,
                    swaps |-> made.swaps, ret |-> made.heap_sequence])

\* heappop(heap, swap_elements=swap_elements)
HeapPop(swap_elements) ==
    /\ last.op = "none"
    /\ \E done \in {heappop(heap, swap_elements)} :
          HeapCall("heappop", [swap_elements |-> swap_elements], done)

\* heappush(element, heap, swap_elements=swap_elements)
HeapPush(element, swap_elements) ==
    /\ last.op = "none"
    /\ Len(heap) < MaxHeapLen
    /\ \E done \in {heappush(element, heap, swap_elements)} :
          HeapCall("heappush",
                   [element |-> element, swap_elements |-> swap_elements],
                   done)

\* What a caller passes to limited_gather: a list of values, on which `not
\* iterable` and the loop agree, and a number of permits that lets a task start.
IterationValues == {"a", "b"}
Iterables == UNION {[1..n -> IterationValues] : n \in 0..MaxIterable}
Concurrencies == 1..MaxConcurrent

\* limited_gather has returned None to its caller.
GatherReturns(frame) ==
    Call("limited_gather",
         [iterable |-> frame.iterable,
          result_callback |-> frame.result_callback,
          num_concurrent |-> frame.num_concurrent],
         Outcome(None, NoFilter, FALSE))

\* await limited_gather(iteration_coroutine, iterable, result_callback,
\* num_concurrent): the call, up to the loop. Every call starts from locals of
\* its own, so one call is followed from the caller's first state to its
\* return.
LimitedGather(iterable, result_callback, num_concurrent) ==
    /\ last.op = "none"
    /\ gather.pc = "idle"
    /\ \E frame \in {limited_gather(iterable, result_callback,
                                    num_concurrent)} :
          /\ gather' = frame
          /\ last' = IF frame.pc = "returned" THEN GatherReturns(frame)
                     ELSE last
    /\ tasks' = << >>
    /\ callback_calls' = << >>
    /\ UNCHANGED <<bloom_filter_vars, heap_vars, grid_vars>>

\* A pass of the loop; acquire waits while the semaphore has no permit
ForBody ==
    /\ gather.pc = "for"
    /\ gather.index < Len(gather.iterable)
    /\ gather.request_limiting_semaphore > 0
    /\ \E pass \in {for_body(gather, gather.iterable[gather.index + 1])} :
          /\ gather' = pass.gather
          /\ tasks' = Append(tasks, pass.task)
    /\ UNCHANGED <<last, callback_calls, bloom_filter_vars, heap_vars,
                   grid_vars>>

\* The iterable is exhausted
ForEnd ==
    /\ gather.pc = "for"
    /\ gather.index = Len(gather.iterable)
    /\ gather' = [gather EXCEPT !.pc = "while"]
    /\ UNCHANGED <<last, tasks, callback_calls, bloom_filter_vars, heap_vars,
                   grid_vars>>

\* while num_finished < num_started: into the wait, or out of limited_gather
While ==
    /\ gather.pc = "while"
    /\ IF gather.num_finished < gather.num_started
       THEN /\ gather' = [gather EXCEPT !.pc = "wait"]
            /\ UNCHANGED last
       ELSE /\ gather' = [gather EXCEPT !.pc = "returned"]
            /\ last' = GatherReturns(gather)
    /\ UNCHANGED <<tasks, callback_calls, bloom_filter_vars, heap_vars,
                   grid_vars>>

\* await all_finished_event.wait() returns once the event is set
Wait ==
    /\ gather.pc = "wait"
    /\ gather.all_finished_event
    /\ gather' = [gather EXCEPT !.pc = "clear"]
    /\ UNCHANGED <<last, tasks, callback_calls, bloom_filter_vars, heap_vars,
                   grid_vars>>

\* all_finished_event.clear()
Clear ==
    /\ gather.pc = "clear"
    /\ gather' = [gather EXCEPT !.pc = "while", !.all_finished_event = FALSE]
    /\ UNCHANGED <<last, tasks, callback_calls, bloom_filter_vars, heap_vars,
                   grid_vars>>

\* The iteration coroutine of a task returns or raises: the task is done, and
\* its done callback is to be called
TaskFinishes(task) ==
    /\ task \in 1..Len(tasks)
    /\ tasks[task].state = "pending"
    /\ tasks' = [tasks EXCEPT ![task].state = "done"]
    /\ UNCHANGED <<last, gather, callback_calls, bloom_filter_vars, heap_vars,
                   grid_vars>>

\* The event loop calls task_done_callback of a task that is done, in the
\* context copied for it
TaskDoneCallback(task, raises) ==
    /\ task \in 1..Len(tasks)
    /\ tasks[task].state = "done"
    /\ \E called \in {task_done_callback(gather, task, tasks[task].context,
                                         raises)} :
          /\ gather' = called.gather
          /\ callback_calls' = callback_calls \o called.calls
    /\ tasks' = [tasks EXCEPT ![task].state = "called back"]
    /\ UNCHANGED <<last, bloom_filter_vars, heap_vars, grid_vars>>

\* A grid call: its outcome, the tiles' values and the map it leaves.
GridCall(op, arg, done, ret) ==
    /\ last' = Call(op, arg, Outcome(done.error, NoFilter, ret))
    /\ grid' = done.grid
    /\ occupied_tile_coordinate_to_occupied_tile' = done.occupied
    /\ UNCHANGED <<bloom_filter_vars, heap_vars, gather_vars>>

\* The calls that assign a tile's value through the setter
Setters == {"set_value", "set_coordinate_value", "Tile.value"}

\* grid.set_value(row_index, column_index, value),
\* grid.set_coordinate_value(coordinate, value), and tile.value = value
SetValue(op, coordinate, value) ==
    /\ last.op = "none"
    /\ GridCall(op, [coordinate |-> coordinate, value |-> value],
                value_setter(grid, occupied_tile_coordinate_to_occupied_tile,
                             coordinate, value),
                FALSE)

\* The calls that clear a tile's value
Clearers == {"clear_value", "clear_coordinate_value", "Tile.clear_value"}

\* grid.clear_value(row_index, column_index),
\* grid.clear_coordinate_value(coordinate), and tile.clear_value()
ClearValue(op, coordinate) ==
    /\ last.op = "none"
    /\ GridCall(op, [coordinate |-> coordinate, value |-> UNOCCUPIED],
                tile_clear_value(grid,
                                 occupied_tile_coordinate_to_occupied_tile,
                                 coordinate),
                FALSE)

\* The grid as a frontier query leaves it.
Queried ==
    [error |-> None, grid |-> grid,
     occupied |-> occupied_tile_coordinate_to_occupied_tile]

\* grid.frontier_moore()
FrontierMoore ==
    /\ last.op = "none"
    /\ GridCall("frontier_moore", 0, Queried,
                frontier_moore(grid,
                               occupied_tile_coordinate_to_occupied_tile))

\* grid.frontier_von_neumann()
FrontierVonNeumann ==
    /\ last.op = "none"
    /\ GridCall("frontier_von_neumann", 0, Queried,
                frontier_von_neumann(
                    grid, occupied_tile_coordinate_to_occupied_tile))

\* grid.pre_frontier_moore()
PreFrontierMoore ==
    /\ last.op = "none"
    /\ GridCall("pre_frontier_moore", 0, Queried,
                pre_frontier_moore(grid,
                                   occupied_tile_coordinate_to_occupied_tile))

\* A caller that builds a filter, works with it, and hands it on as bytes.
Next ==
    \/ \E capacity \in Capacities, p \in Probabilities, h \in HashFunctions :
          New(capacity, p, h)
    \/ \E values \in Batches, capacity \in Capacities, p \in Probabilities,
          h \in HashFunctions :
          FromValues(values, capacity, p, h)
    \/ \E values \in Batches, proportion \in {2, 3}, p \in Probabilities,
          h \in HashFunctions :
          FromValues2(values, proportion, p, h)
    \/ \E value \in Values : Add(value)
    \/ \E values \in Batches : Update(values)
    \/ \E value \in Values : Contains(value)
    \/ LenCall
    \/ ExportBytes
    \/ \E h \in HashFunctions \cup {None} : ImportBytes(h, Undamaged)
    \/ Return

Spec == Init /\ [][Next]_vars

\* A caller that constructs filters of any configuration, from collections
\* of values too, exports them, and imports the bytes as they are received,
\* with or without a hash function of its own.
NextCodec ==
    \/ \E capacity \in Capacities,
          p \in Probabilities \cup {ProbEighth} \cup OutsideProbabilities,
          h \in HashFunctions \cup UserHashFunctions :
          New(capacity, p, h)
    \/ \E values \in Collections, capacity \in Capacities,
          p \in Probabilities \cup {ProbEighth},
          h \in HashFunctions \cup UserHashFunctions :
          FromValues(values, capacity, p, h)
    \/ \E values \in Collections, proportion \in {2, 3},
          p \in Probabilities, h \in HashFunctions :
          FromValues2(values, proportion, p, h)
    \/ ExportBytes
    \/ \E h \in HashFunctions \cup UserHashFunctions \cup {None},
          damage \in [cut : 0..MaxCut, fewer : 0..1] :
          ImportBytes(h, damage)
    \/ Return

SpecCodec == Init /\ [][NextCodec]_vars

\* A caller that makes aggregated hash functions and runs them.
NextHash ==
    \/ \E slices \in SliceCounts, slice_bits \in SliceBits,
          h \in HashFunctions \cup UserHashFunctions, value \in Values :
          AggregatedHashFunction(slices, slice_bits, h, value)
    \/ Return

SpecHash == Init /\ [][NextHash]_vars

\* A caller that keeps a heap: it makes one of a list, pushes and pops.
NextHeap ==
    \/ \E heap_sequence \in Lists, swap_elements \in SwapFunctions :
          MakeHeap(heap_sequence, swap_elements)
    \/ \E swap_elements \in SwapFunctions : HeapPop(swap_elements)
    \/ \E element \in Elements, swap_elements \in SwapFunctions :
          HeapPush(element, swap_elements)
    \/ Return

SpecHeap == Init /\ [][NextHeap]_vars

\* A caller that awaits limited_gather, on an event loop that runs the tasks
\* and the done callbacks in any order.
NextGather ==
    \/ \E iterable \in Iterables, result_callback \in ResultCallbacks,
          num_concurrent \in Concurrencies :
          LimitedGather(iterable, result_callback, num_concurrent)
    \/ ForBody
    \/ ForEnd
    \/ While
    \/ Wait
    \/ Clear
    \/ \E task \in 1..MaxIterable : TaskFinishes(task)
    \/ \E task \in 1..MaxIterable, raises \in BOOLEAN :
          TaskDoneCallback(task, raises)
    \/ Return

SpecGather == Init /\ [][NextGather]_vars

\* The same caller, on an event loop that runs what is ready, and with
\* iteration coroutines that finish.
LimitedGatherRuns == ForBody \/ ForEnd \/ While \/ Wait \/ Clear

SpecGatherFair ==
    /\ Init
    /\ [][NextGather]_vars
    /\ WF_vars(LimitedGatherRuns)
    /\ \A task \in 1..MaxIterable : WF_vars(TaskFinishes(task))
    /\ \A task \in 1..MaxIterable :
          WF_vars(\E raises \in BOOLEAN : TaskDoneCallback(task, raises))

\* A caller that assigns and clears the values of the tiles of a grid and asks
\* for its frontiers.
NextGrid ==
    \/ \E op \in Setters, coordinate \in Coordinates, value \in TileValues :
          SetValue(op, coordinate, value)
    \/ \E op \in Clearers, coordinate \in Coordinates :
          ClearValue(op, coordinate)
    \/ FrontierMoore
    \/ FrontierVonNeumann
    \/ PreFrontierMoore
    \/ Return

SpecGrid == Init /\ [][NextGrid]_vars

\* ------------------------------------------------------------- claims
\* A step that is a call of add: it returned, or it raised `last'.error`.
AddStep == last'.op = "add"

AnyBitSet(f) == \E i \in 1..Len(f.bit_array) : f.bit_array[i]

\* C1: no false negatives.  In every reachable state the filter reports every
\* value that add, update or a from_values constructor has accepted into it.
C1_NoFalseNegatives ==
    bf # NoFilter =>
        \A v \in inserted :
            contains(bf, v).error = None /\ contains(bf, v).ret

C1_Witness ==
    /\ bf # NoFilter
    /\ Cardinality(inserted) >= 2
    /\ num_added > Cardinality(inserted)

\* C2: an add that returns gives what `value in bf` gave just before the call
\* (True iff every probed cell was set already), and when it gives False the
\* call has set a cell that was not set.
C2_AddSignal ==
    [][(AddStep /\ last'.error = None) =>
          /\ last'.ret = contains(bf, last'.arg).ret
          /\ (~last'.ret => bf'.bit_array # bf.bit_array)]_vars

\* The second add to a filter, of a value other than the first, returned True.
C2_Witness ==
    /\ last.op = "add" /\ last.error = None /\ last.ret
    /\ num_added = 2 /\ Cardinality(inserted) = 2

\* C3 as claimed: on a filter of a valid configuration, add of a value returns
\* False when the filter is empty or not all the value's cells are set, and
\* returns True when the value was added before, whatever was added since.
C3_AsClaimed ==
    [][(AddStep /\ bf.capacity > 0) =>
          /\ last'.error = None
          /\ (last'.arg \in inserted => last'.ret)
          /\ (~contains(bf, last'.arg).ret => ~last'.ret)]_vars

\* C3 amended: of every add that returns, the same; and an add of a value that
\* was added before returns unless the capacity check rejects it
\* (num_elements_mapped > capacity), which the adds made since can bring about.
C3_TwiceUnlessRejected ==
    [][AddStep =>
          /\ last'.error = None =>
                /\ (last'.arg \in inserted => last'.ret)
                /\ (~contains(bf, last'.arg).ret => ~last'.ret)
          /\ (last'.arg \in inserted
                /\ bf.num_elements_mapped <= bf.capacity) => last'.error = None
      ]_vars

\* The second add of a value, after another value was added in between.
C3_Witness ==
    /\ last.op = "add" /\ last.error = None /\ last.ret
    /\ num_added = 3 /\ Cardinality(inserted) = 2

C5_AsClaimed ==
    [][(AddStep /\ bf.capacity > 0 /\ bf.num_elements_mapped = bf.capacity) =>
          /\ last'.error = IndexError
          /\ bf'.bit_array = bf.bit_array]_vars

\* C6: an add that raises IndexError changes nothing of the object, and an
\* update that raises it leaves the object as the adds before the rejected
\* one left it.
C6_RejectedAddIsAtomic ==
    [][/\ (AddStep /\ last'.error = IndexError) => bf' = bf
       /\ (last'.op = "update" /\ last'.error = IndexError) =>
              bf' = update(bf, SubSeq(last'.arg, 1, num_added' - num_added)).obj
      ]_vars

C6_Witness ==
    /\ last.op = "add" /\ last.error = IndexError
    /\ AnyBitSet(bf) /\ ~contains(bf, last.arg).ret

\* C7: `value in bf` changes nothing of the object, so len() is as before, and
\* asking again gives the same answer.
C7_ContainsIsPure ==
    [][last'.op = "contains" =>
          /\ bf' = bf
          /\ len(bf') = len(bf)
          /\ contains(bf', last'.arg).error = last'.error
          /\ contains(bf', last'.arg).ret = last'.ret]_vars

C7_Witness ==
    /\ last.op = "contains" /\ last.error = None /\ ~last.ret
    /\ AnyBitSet(bf)

\* C8: len() is the number of add calls on the object that returned, whether
\* made one by one, by update or by a from_values constructor, duplicates
\* counted.
C8_LenCountsAdds ==
    /\ bf # NoFilter => len(bf) = num_added
    /\ last.op = "len" => last.ret = num_added

C8_Witness ==
    /\ last.op = "len" /\ last.ret = 3
    /\ Cardinality(inserted) = 1

\* C9 as claimed: import_bytes of what export_bytes has returned gives a
\* filter of the same capacity and hash function that answers `value in bf`
\* as the exported filter does for every value added to that one.
C9_AsClaimed ==
    [][(last.op = "export_bytes" /\ last'.op = "import_bytes"
           /\ last'.arg = [hash_function |-> None, cut |-> 0, fewer |-> 0]) =>
          /\ last'.error = None
          /\ bf'.capacity = bf.capacity
          /\ bf'.hash_function = bf.hash_function
          /\ \A v \in inserted :
                contains(bf', v).ret = contains(bf, v).ret]_vars

\* C10 as claimed: BloomFilter(capacity=0, ...) raises, and no filter object
\* of capacity 0 exists.
C10_AsClaimed ==
    /\ (last.op = "init" /\ last.arg.capacity = 0) => last.error # None
    /\ bf # NoFilter => bf.capacity # 0

\* C11 as claimed: BloomFilter(capacity, false_positive_probability) raises
\* whenever the probability is not strictly inside (0, 1), and no filter
\* object has such a probability.
C11_AsClaimed ==
    /\ (last.op = "init"
          /\ (last.arg.false_positive_probability <= 0
                \/ last.arg.false_positive_probability >= ProbabilityDenominator))
          => last.error # None
    /\ bf # NoFilter =>
          /\ bf.false_positive_probability > 0
          /\ bf.false_positive_probability < ProbabilityDenominator

\* C12 as claimed: export_bytes returns, in this order, the capacity as 8
\* bytes big-endian, the probability as a binary32 most significant byte
\* first, the length of the hash function's name as 8 bytes big-endian, the
\* name, the length of the bit array's bytes as 8 bytes big-endian and those
\* bytes: 28 + N + M bytes.
C12_AsClaimed ==
    last.op = "export_bytes" =>
        LET name == name_bytes(bf.hash_function)
            packed == tobytes(bf.bit_array)
        IN /\ last.ret = pack_be(bf.capacity, 8)
                           \o reversed(struct_pack_f(bf.false_positive_probability))
                           \o pack_be(Len(name), 8) \o name
                           \o pack_be(Len(packed), 8) \o packed
           /\ Len(last.ret) = 28 + Len(name) + Len(packed)

\* A step that is a call of import_bytes on what export_bytes returned.
ImportStep == last.op = "export_bytes" /\ last'.op = "import_bytes"

\* The name in the bytes export_bytes returned is one hashlib has.
NameKnown == \E h \in HashFunctions : name_bytes(h) = SubSeq(last.ret, 21, 20 + unpack_be(SubSeq(last.ret, 13, 20)))

\* C13 as claimed: import_bytes of undamaged bytes uses the hash function the
\* bytes name when hashlib has it, whatever hash_function the caller gives,
\* and the caller's only when hashlib has not.
C13_AsClaimed ==
    [][(ImportStep /\ last'.arg.cut = 0 /\ last'.arg.fewer = 0
          /\ last'.error = None) =>
          bf'.hash_function = IF NameKnown THEN bf.hash_function
                              ELSE last'.arg.hash_function]_vars

\* C14: import_bytes without a hash_function of bytes whose name hashlib has
\* not raises and returns no filter; it raises AttributeError whenever the
\* bytes are long enough for the fixed-width fields.
C14_UnknownNameFails ==
    [][(ImportStep /\ last'.arg.hash_function = None /\ ~NameKnown) =>
          /\ last'.error # None
          /\ bf' = bf
          /\ (last'.arg.cut = 0 => last'.error = AttributeError)]_vars

C14_Witness ==
    /\ last.op = "import_bytes" /\ last.error = AttributeError
    /\ last.arg = [hash_function |-> None, cut |-> 0, fewer |-> 0]
    /\ bf.hash_function \in UserHashFunctions /\ inserted # {}

\* C15 as claimed: import_bytes of bytes that end before the bytes
\* export_bytes returned (a proper prefix) raises.
C15_AsClaimed ==
    [][(ImportStep /\ last'.arg.cut > 0) => last'.error # None]_vars

\* C16 as claimed: import_bytes of bytes that are whole, with a hash function
\* at hand, returns a filter of bit_size cells for its configuration: the
\* cells the bytes hold, cut to bit_size or followed by False cells.
C16_AsClaimed ==
    [][(ImportStep /\ last'.arg.cut = 0
          /\ (NameKnown \/ last'.arg.hash_function # None)) =>
          /\ last'.error = None
          /\ Len(bf'.bit_array) = bf'.bit_size
          /\ LET held == Len(tobytes(bf.bit_array)) - last'.arg.fewer
             IN \A i \in 1..bf'.bit_size :
                   bf'.bit_array[i] =
                      (i <= 8 * held /\ i <= Len(bf.bit_array) /\ bf.bit_array[i])
      ]_vars

RECURSIVE InsertEach(_, _)
\* f.add(v1); ...; f.add(vn) by the caller, up to the first that raises: the
\* exception, the object left and what the calls returned.
InsertEach(f, values) ==
    IF values = << >> THEN [error |-> None, obj |-> f, rets |-> << >>]
    ELSE Bind({
         IF one.error # None
         THEN [error |-> one.error, obj |-> one.obj, rets |-> << >>]
         ELSE Bind({
              [rest EXCEPT !.rets = <<one.ret>> \o @]
              : rest \in {InsertEach(one.obj, Tail(values))}})
         : one \in {add(f, Head(values))}})

\* C17: an update that returns leaves the object as add of its values one by
\* one, in their order, leaves it, and returns what those calls return.
C17_UpdateIsAddInOrder ==
    [][(last'.op = "update" /\ last'.error = None) =>
          /\ InsertEach(bf, last'.arg).error = None
          /\ bf' = InsertEach(bf, last'.arg).obj
          /\ last'.ret = InsertEach(bf, last'.arg).rets
          /\ len(bf') = len(bf) + Len(last'.arg)]_vars

\* A value twice in one batch: False, then True.
C17_Witness ==
    /\ last.op = "update" /\ last.error = None
    /\ Len(last.arg) = 2 /\ last.arg[1] = last.arg[2]
    /\ last.ret = <<FALSE, TRUE>>

\* An update of which some value fails the capacity check, on a filter of a
\* valid configuration.
UpdateOverCapacity ==
    /\ last'.op = "update"
    /\ bf.capacity > 0
    /\ bf.num_elements_mapped + Len(last'.arg) > bf.capacity + 1

\* C18 as claimed: such an update processes all its values and returns an
\* outcome for each.
C18_AsClaimed ==
    [][UpdateOverCapacity =>
          /\ last'.error = None
          /\ Len(last'.ret) = Len(last'.arg)]_vars

\* C18 amended: such an update raises IndexError and returns nothing; the
\* values before the one that failed are added, it and those after it are not.
C18_FailureEndsBatch ==
    [][UpdateOverCapacity =>
          LET room == IF bf.num_elements_mapped > bf.capacity THEN 0
                      ELSE bf.capacity + 1 - bf.num_elements_mapped
          IN /\ last'.error = IndexError
             /\ bf' = InsertEach(bf, SubSeq(last'.arg, 1, room)).obj
             /\ len(bf') = len(bf) + room
             /\ inserted' = inserted \cup {last'.arg[k] : k \in 1..room}]_vars

\* An update of two values raised after it had added the first.
C18_Witness ==
    /\ last.op = "update" /\ last.error = IndexError
    /\ Len(last.arg) = 2 /\ last.arg[1] # last.arg[2]
    /\ bf.capacity = 1 /\ inserted = {last.arg[1]} /\ num_added = 2

\* C19: from_values and from_values_2 give what BloomFilter(capacity, ...)
\* followed by add of every value in order gives, the capacity being the one
\* given or ceil(capacity_proportion * len(values)); when they return, len()
\* is the number of values and every value is in the filter; from_values with
\* more than capacity + 1 values raises IndexError (capacity >= 1).
C19_Shortcuts ==
    last.op \in {"from_values", "from_values_2"} =>
        LET values == last.arg.values
            capacity == IF last.op = "from_values" THEN last.arg.capacity
                        ELSE ceil_div(last.arg.capacity_proportion * Len(values), 2)
            made == init(capacity, last.arg.false_positive_probability,
                         last.arg.hash_function, << >>)
            each == InsertEach(made.obj, values)
        IN /\ made.error = None
           /\ last.error = each.error
           /\ last.error = None =>
                /\ bf = each.obj
                /\ bf.capacity = capacity
                /\ len(bf) = Len(values)
                /\ \A k \in 1..Len(values) : contains(bf, values[k]).ret
           /\ last.error # None => bf = NoFilter
           /\ (capacity > 0 /\ Len(values) > capacity + 1)
                => last.error = IndexError

\* from_values was given three values for a capacity of one.
C19_Witness ==
    /\ last.op = "from_values" /\ last.error = IndexError
    /\ last.arg.capacity = 1 /\ Len(last.arg.values) = 3

\* C20: a filter of a valid configuration has num_slices >= 1,
\* num_bits_per_slice >= 1 and bit_size = num_slices * num_bits_per_slice
\* cells, as its capacity and probability give them, and no call on it
\* changes them; a probability of 0.001 gives 10 slices, 0.01 gives 7.
C20_Sizing ==
    [][/\ (bf' # NoFilter /\ bf'.capacity > 0) =>
              /\ bf'.num_slices >= 1
              /\ bf'.num_bits_per_slice >= 1
              /\ bf'.bit_size = bf'.num_slices * bf'.num_bits_per_slice
              /\ bf'.bit_size % bf'.num_slices = 0
              /\ Len(bf'.bit_array) = bf'.bit_size
              /\ bf'.num_slices = num_slices(bf'.false_positive_probability)
              /\ bf'.num_bits_per_slice =
                    num_bits_per_slice(bf'.capacity,
                                       bf'.false_positive_probability)
       /\ (bf # NoFilter /\ last'.op \notin {"import_bytes", "none"}) =>
              /\ bf'.num_slices = bf.num_slices
              /\ bf'.num_bits_per_slice = bf.num_bits_per_slice
              /\ bf'.bit_size = bf.bit_size
       /\ num_slices(ProbThousandth) = 10
       /\ num_slices(ProbHundredth) = 7]_vars

C20_Witness ==
    /\ bf # NoFilter /\ bf.capacity = 2 /\ bf.num_slices = 2
    /\ bf.num_bits_per_slice = 3 /\ num_added = 3 /\ last.op = "contains"

\* C21: aggregated_hash_function(value) yields exactly num_slices bit index
\* numbers, each in 0..num_bits_per_slice - 1: number k is word (k - 1) mod n
\* of the digest under salt (k - 1) div n, n words to a digest, reduced modulo
\* num_bits_per_slice; so the salts are used in order and the last digest is
\* left where num_slices is reached.
C21_StreamLength ==
    last.op = "aggregated_hash_function" =>
        LET a == last.arg
            h == make_aggregated_hash_function(a.num_slices,
                                               a.num_bits_per_slice,
                                               a.hash_function)
            n == digest_size(a.hash_function) \div h.size
            word(k) == struct_unpack_from(
                           h.format,
                           digest(a.hash_function, (k - 1) \div n, a.value),
                           ((k - 1) % n) * h.size).value
        IN /\ last.error = None
           /\ Len(last.ret) = a.num_slices
           /\ \A k \in 1..Len(last.ret) :
                 /\ last.ret[k] \in 0..(a.num_bits_per_slice - 1)
                 /\ last.ret[k] = word(k) % a.num_bits_per_slice

\* Six numbers of md5 digests of four 32-bit words: the second digest is left
\* after its second word, which differs from the first digest's.
C21_Witness ==
    /\ last.op = "aggregated_hash_function" /\ last.error = None
    /\ last.arg.hash_function = "md5"
    /\ last.arg.num_bits_per_slice = pow2(15)
    /\ last.arg.num_slices = 6 /\ Len(last.ret) = 6
    /\ last.ret[6] # last.ret[2]

\* C22 as claimed: a bit index number is read as 16 bits when
\* num_bits_per_slice < 2^16 and as 32 bits from 2^16 on (below 2^32).
C22_AsClaimed ==
    last.op = "aggregated_hash_function" =>
        make_aggregated_hash_function(last.arg.num_slices,
                                      last.arg.num_bits_per_slice,
                                      last.arg.hash_function).size
          = IF last.arg.num_bits_per_slice < pow2(16) THEN 2 ELSE 4

\* C23: what a filter hashes with (the word format, the words in a digest,
\* the salts, the hash function, the numbers of slices and of bits in a
\* slice) is what its capacity, probability and hash function give, after
\* every call, whatever was added to it and however often it was asked.  The
\* bit index numbers of a value are a function of that and the value, so two
\* filters of one configuration yield the same numbers for it.
C23_StreamOfConfiguration ==
    [][bf' # NoFilter =>
          bf'.hash = make_aggregated_hash_function(
                         num_slices(bf'.false_positive_probability),
                         num_bits_per_slice(bf'.capacity,
                                            bf'.false_positive_probability),
                         bf'.hash_function)
      ]_vars

\* A filter that two values were added to has been asked about a value.
C23_Witness ==
    /\ bf # NoFilter /\ bf.capacity > 0 /\ bf.hash_function = "sha3_256"
    /\ Cardinality(inserted) = 2 /\ num_added = 3
    /\ last.op = "contains" /\ last.error = None

\* C24: for every value, every cell that add or `value in bf` reads or writes,
\* cell (slice index) * num_bits_per_slice + (bit index number), is a cell of
\* the bit array: at least 0 and below bit_size.  No call fails on a cell
\* that is not there.
C24_OffsetsInBounds ==
    bf # NoFilter =>
        \A v \in Values :
            LET hashed == aggregated_hash_function(bf.hash, v)
                offset(k) == (k - 1) * bf.num_bits_per_slice + hashed.indices[k]
            IN /\ hashed.error = None =>
                     \A k \in 1..Len(hashed.indices) :
                        /\ 0 <= offset(k)
                        /\ offset(k) < bf.bit_size
                        /\ offset(k) < Len(bf.bit_array)
               /\ contains(bf, v).error # IndexError
               /\ add(bf, v).error = IndexError =>
                     bf.num_elements_mapped > bf.capacity

\* A filter of three slices of three cells made from values: the last cell of
\* its second slice is set.
C24_Witness ==
    /\ bf # NoFilter /\ bf.num_slices = 3 /\ bf.num_bits_per_slice = 3
    /\ last.op = "from_values" /\ last.error = None
    /\ bf.bit_array[6]
    /\ \E v \in inserted :
          aggregated_hash_function(bf.hash, v).indices[2] = 2

\* C25: an add that returns sets one cell in every slice and nothing else:
\* for slice i (from 0) the cell i * num_bits_per_slice + index_i, which lies
\* in i * num_bits_per_slice .. (i + 1) * num_bits_per_slice - 1, index_i the
\* i-th bit index number of the value; every other cell is as it was.
C25_OneCellPerSlice ==
    [][(AddStep /\ last'.error = None) =>
          \A indices \in {aggregated_hash_function(bf.hash, last'.arg).indices} :
          LET nbps == bf.num_bits_per_slice
              cell(i) == i * nbps + indices[i + 1]
              cells == {cell(i) : i \in 0..(bf.num_slices - 1)}
          IN /\ Len(indices) = bf.num_slices
             /\ \A i \in 0..(bf.num_slices - 1) :
                   /\ i * nbps <= cell(i) /\ cell(i) < (i + 1) * nbps
                   /\ bf'.bit_array[cell(i) + 1]
             /\ Len(bf'.bit_array) = Len(bf.bit_array)
             /\ \A c \in 0..(Len(bf.bit_array) - 1) :
                   c \notin cells => bf'.bit_array[c + 1] = bf.bit_array[c + 1]
      ]_vars

\* An add to a filter of two slices has set a cell in the second slice and
\* left a cell of another value set.
C25_Witness ==
    /\ last.op = "add" /\ last.error = None /\ ~last.ret
    /\ bf.num_slices = 2 /\ Cardinality(inserted) = 2 /\ num_added = 2
    /\ \E i \in 1..Len(bf.bit_array) :
          /\ bf.bit_array[i]
          /\ i \notin {(k - 1) * bf.num_bits_per_slice
                          + aggregated_hash_function(bf.hash, last.arg).indices[k]
                          + 1 : k \in 1..2}

\* C26: over add, update, `value in bf`, len() and export_bytes() on a filter,
\* a cell that is set stays set and the bit array keeps its length; only add
\* and update set cells, the other calls leave the bit array as it is.
C26_CellsStaySet ==
    [][(bf # NoFilter
          /\ last'.op \in {"add", "update", "contains", "len", "export_bytes",
                            "none"}) =>
          /\ Len(bf'.bit_array) = Len(bf.bit_array)
          /\ \A i \in 1..Len(bf.bit_array) :
                bf.bit_array[i] => bf'.bit_array[i]
          /\ last'.op \notin {"add", "update"} => bf'.bit_array = bf.bit_array
      ]_vars

\* An update of two values on a filter that held a value: a value added
\* before it and again by it.
C26_Witness ==
    /\ last.op = "update" /\ last.error = None /\ Len(last.arg) = 2
    /\ last.ret = <<TRUE, FALSE>> /\ num_added = 3

\* C27: in every reachable state len() <= capacity + 1, whatever adds and
\* updates were made and whichever of them raised.
C27_LenBounded ==
    /\ bf # NoFilter => len(bf) <= bf.capacity + 1
    /\ (bf # NoFilter /\ last.op = "len") => last.ret <= bf.capacity + 1

\* An add was rejected by a filter of capacity 2 that holds 3 elements.
C27_Witness ==
    /\ last.op = "add" /\ last.error = IndexError
    /\ bf.capacity = 2 /\ len(bf) = 3

ValuesOf(values) == {values[k] : k \in 1..Len(values)}

RECURSIVE Ascending(_)
\* The values of a set, each once, in ascending order.
Ascending(S) ==
    IF S = {} THEN << >>
    ELSE LET least == CHOOSE x \in S : \A y \in S : x <= y
         IN <<least>> \o Ascending(S \ {least})

\* C29: the bit array is a function of the set of values added.  A filter
\* made from a collection of values, in whatever order and with whatever
\* repetitions, has the bit array, and gives the answers to `value in bf`, of
\* the filter of the same capacity, probability and hash function made from
\* the values of the collection once each in ascending order; so two filters
\* made from the same values in any orders have the same.
C29_OrderIndependent ==
    (last.op = "from_values" /\ last.error = None) =>
        \A made \in {from_values(Ascending(ValuesOf(last.arg.values)),
                                  last.arg.capacity,
                                  last.arg.false_positive_probability,
                                  last.arg.hash_function)} :
            /\ made.error = None
            /\ made.obj.bit_array = bf.bit_array
            /\ \A v \in Values :
                  /\ contains(made.obj, v).error = contains(bf, v).error
                  /\ contains(made.obj, v).ret = contains(bf, v).ret

\* A filter of three slices made from three values, two of them the same,
\* the other between them.
C29_Witness ==
    /\ last.op = "from_values" /\ last.error = None
    /\ Len(last.arg.values) = 3 /\ last.arg.values[1] = last.arg.values[3]
    /\ last.arg.values[1] # last.arg.values[2]
    /\ bf.num_slices = 3 /\ len(bf) = 3

\* Every parent is not greater than its children.
IsMinHeap(heap_sequence) ==
    \A i \in 1..(Len(heap_sequence) - 1) :
        heap_sequence[((i - 1) \div 2) + 1] <= heap_sequence[i + 1]

\* How often a list holds an element.
Count(heap_sequence, element) ==
    Cardinality({i \in 1..Len(heap_sequence) : heap_sequence[i] = element})

\* C30: heappop on a list that is not empty and is a min-heap returns the
\* root, which no element is less than; the list it leaves has one element
\* less, that one occurrence of the returned element and nothing else, and is
\* a min-heap.  Lists of one and of two elements included.
C30_HeapPop ==
    [][(last'.op = "heappop" /\ heap # << >> /\ IsMinHeap(heap)) =>
          /\ last'.error = None
          /\ last'.ret = heap[1]
          /\ \A i \in 1..Len(heap) : last'.ret <= heap[i]
          /\ Len(heap') = Len(heap) - 1
          /\ \A e \in Elements :
                Count(heap', e)
                  = Count(heap, e) - (IF e = last'.ret THEN 1 ELSE 0)
          /\ IsMinHeap(heap')
      ]_vars

\* heappop of a list of five has moved the new root down two levels.
C30_Witness ==
    /\ last.op = "heappop" /\ last.error = None
    /\ Len(heap) = 4 /\ Len(swap_calls) = 2 /\ last.ret < heap[1]

\* C31: heappush of an element onto a list that is a min-heap, the empty list
\* included, returns the element and leaves a min-heap that holds one more
\* occurrence of it and is otherwise the same multiset; and after every call
\* of a caller that pushes and pops, beginning with an empty list, the list
\* is a min-heap.
C31_HeapPush ==
    [][/\ (last'.op = "heappush" /\ IsMinHeap(heap)) =>
              /\ last'.error = None
              /\ last'.ret = last'.arg.element
              /\ Len(heap') = Len(heap) + 1
              /\ \A e \in Elements :
                    Count(heap', e)
                      = Count(heap, e) + (IF e = last'.ret THEN 1 ELSE 0)
              /\ IsMinHeap(heap')
       /\ IsMinHeap(heap')
      ]_vars

\* The element pushed has gone up two levels, to the root.
C31_Witness ==
    /\ last.op = "heappush" /\ last.error = None
    /\ Len(swap_calls) = 2 /\ Len(heap) >= 4
    /\ heap[1] = last.ret /\ heap[1] < heap[2]

C33_AsClaimed ==
    (last.op \in {"make_heap", "heappop"}
       /\ last.arg.swap_elements # DefaultSwapElements) =>
        \A i \in 1..Len(swap_calls) : swap_calls[i] = last.arg.swap_elements

\* The tasks whose iteration coroutine is started and has not finished.
Pending == {task \in 1..Len(tasks) : tasks[task].state = "pending"}

\* C34: at no time are more than num_concurrent invocations of
\* iteration_coroutine started and not yet finished, whatever the length of the
\* iterable and the order in which the tasks finish.
C34_AtMostNumConcurrent ==
    /\ Cardinality(Pending) <= gather.num_concurrent
    /\ gather.pc \in {"for", "while", "wait", "clear"} =>
          gather.request_limiting_semaphore >= 0

\* The limit is reached with a later task started in the place of an earlier
\* one that finished out of order.
C34_Witness ==
    /\ gather.num_concurrent = 2
    /\ Len(gather.iterable) = 3
    /\ Len(tasks) = 3
    /\ tasks[1].state = "pending"
    /\ tasks[2].state = "called back"
    /\ tasks[3].state = "pending"

\* The tasks result_callback has been called with, in the order of the calls.
CalledWith == [call \in 1..Len(callback_calls) |-> callback_calls[call].task]

\* C35: result_callback is called exactly once for each element of the
\* iterable: each call passes a task that is finished and the iteration value
\* that task was started with, no task is passed twice, every task whose done
\* callback has run has been passed, and when limited_gather returns there has
\* been one call for each element.
C35_OncePerElementWithItsValue ==
    /\ \A call \in 1..Len(callback_calls) :
          /\ CalledWith[call] \in 1..Len(tasks)
          /\ tasks[CalledWith[call]].state = "called back"
          /\ callback_calls[call].value = tasks[CalledWith[call]].value
          /\ callback_calls[call].value = gather.iterable[CalledWith[call]]
          /\ \A other \in 1..Len(callback_calls) :
                CalledWith[other] = CalledWith[call] => other = call
    /\ \A task \in 1..Len(tasks) :
          tasks[task].state = "called back" =>
              \E call \in 1..Len(callback_calls) : CalledWith[call] = task
    /\ gather.pc = "returned" => Len(callback_calls) = Len(gather.iterable)

\* limited_gather has returned after tasks that finished out of the order of
\* their start, the later ones started with a value other than the first's.
C35_Witness ==
    /\ last.op = "limited_gather"
    /\ gather.iterable = <<"a", "b", "b">>
    /\ CalledWith = <<2, 3, 1>>

\* limited_gather has been called and has not returned.
GatherRunning == gather.pc \in {"for", "while", "wait", "clear"}

\* C36: with iteration coroutines that finish, a call of limited_gather
\* returns; and it has returned only with num_finished equal to num_started,
\* a task started for every element, every task's done callback run and
\* result_callback called for each, the calls that raised counted with the
\* others.
C36_ReturnsOnceAllFinished ==
    /\ [](gather.pc = "returned" =>
            /\ gather.num_finished = gather.num_started
            /\ gather.num_started = Len(gather.iterable)
            /\ Len(tasks) = Len(gather.iterable)
            /\ \A task \in 1..Len(tasks) : tasks[task].state = "called back"
            /\ Len(callback_calls) = Len(tasks))
    /\ GatherRunning ~> (gather.pc = "returned")

\* limited_gather has returned after three tasks, the result callback of one
\* of which raised.
C36_Witness ==
    /\ last.op = "limited_gather"
    /\ CalledWith = <<2, 1, 3>>
    /\ callback_calls[2].raised
    /\ ~callback_calls[3].raised

\* C37 (as claimed): when result_callback is an async function, an element is
\* counted as finished only once its callback has run to completion, so
\* limited_gather has not returned before the body of every callback call has
\* run.
C37_AsClaimed ==
    gather.result_callback = "async function" =>
        /\ gather.num_finished <=
              Cardinality({call \in 1..Len(callback_calls) :
                              callback_calls[call].ran})
        /\ gather.pc = "returned" =>
              \A call \in 1..Len(callback_calls) : callback_calls[call].ran

\* C38 (as claimed): after any calls that set and clear the values of tiles,
\* the occupied-tile map has exactly the tiles that are occupied, and a
\* frontier query returns neighbors of occupied tiles only.
C38_AsClaimed ==
    /\ occupied_tile_coordinate_to_occupied_tile =
          {coordinate \in Coordinates : is_occupied(grid[coordinate])}
    /\ last.op = "frontier_moore" =>
          \A neighbor \in last.ret :
              \E coordinate \in moore_neighborhood(neighbor) :
                  is_occupied(grid[coordinate])

=============================================================================
